---------------------------- MODULE Spec2Model ----------------------------
(***************************************************************************)
(* A model of BiasFX_Scripts/CascadeV01.py: the hedging run                *)
(* (hedging_logic), its monitoring loop (monitor_pending_orders), the      *)
(* trend-following manager (trend_following_buy_strategy), the volatility  *)
(* estimate (get_daily_atr) and the capacity sizer                         *)
(* (maximum_capacity_lot_size), run against a trading venue that moves     *)
(* prices, triggers stops, closes positions and rejects requests on its    *)
(* own.                                                                    *)
(*                                                                         *)
(* Prices are integers counted in units of 1/14 of the 0.0001 price        *)
(* increment the script uses, so that the mean of 14 bar ranges quoted on  *)
(* that increment is an exact integer.  Lot sizes and the sizer's          *)
(* intermediate values are exact rationals <<numerator, denominator>>:     *)
(* the rounding error of the script's floats is not modelled.              *)
(***************************************************************************)
EXTENDS Integers, Sequences, FiniteSets, TLC

(***************************************************************************)
(* Program constants.                                                      *)
(***************************************************************************)
ATR_HEDGE_DISTANCE == 1
PERCENTAGE_MAXIMUM_CAPACITY == 100
ATR_PERIOD == 14
CONTRACT_SIZE == 1000000
ATR_MULTIPLIER == 1
\* 0.0001, the increment of the trailing stop, in price units.
TICK == ATR_PERIOD
\* Price units in one unit of quoted price: 1.0 = 10000 increments of 0.0001.
UNITS_PER_PRICE == 10000 * TICK

(***************************************************************************)
(* Bounds of the model.                                                    *)
(***************************************************************************)
\* The ask moves on 1..MaxAsk increments of 0.0001.
MaxAsk == 4
\* The venue accepts at most this many orders (tickets 1..MaxTicket).
MaxTicket == 3
\* The venue takes at most this many steps while hedging_logic places its
\* orders (lines 233-268); it moves freely once the run polls.
MaxSetupMoves == 1
\* The ask when the run starts, in increments of 0.0001.
StartAsk == 2
\* The sizer is called at most this often with the same answers.
MaxCalls == 2

\* The greatest range of a daily bar, in increments.
MaxRange == 2

(***************************************************************************)
(* Exact rational arithmetic, for the sizer's float expressions.           *)
(***************************************************************************)
Abs(n) == IF n < 0 THEN -n ELSE n

RECURSIVE GCD(_, _)
GCD(a, b) == IF b = 0 THEN a ELSE GCD(b, a % b)

\* n/d in lowest terms with a positive denominator (d # 0).
Rat(n, d) ==
    LET g == GCD(Abs(n), Abs(d))
        s == IF d < 0 THEN -1 ELSE 1
    IN  <<(s * n) \div g, (s * d) \div g>>

RInt(n) == <<n, 1>>

RAdd(p, q) ==
    LET g == GCD(p[2], q[2])
    IN  Rat(p[1] * (q[2] \div g) + q[1] * (p[2] \div g), (p[2] \div g) * q[2])

RNeg(p) == <<-p[1], p[2]>>

RSub(p, q) == RAdd(p, RNeg(q))

RMul(p, q) ==
    LET g1 == GCD(Abs(p[1]), q[2])
        g2 == GCD(Abs(q[1]), p[2])
    IN  Rat((p[1] \div g1) * (q[1] \div g2), (p[2] \div g2) * (q[2] \div g1))

\* q # 0
RDiv(p, q) == RMul(p, Rat(q[2], q[1]))

RLess(p, q) ==
    LET g == GCD(p[2], q[2])
    IN  p[1] * (q[2] \div g) < q[1] * (p[2] \div g)

RIsZero(p) == p[1] = 0

\* Python's round(): to the nearest integer, a tie to the even one.
PyRound(p) ==
    LET q == p[1] \div p[2]
        r == p[1] % p[2]
    IN  IF 2 * r < p[2] THEN q
        ELSE IF 2 * r > p[2] THEN q + 1
        ELSE IF q % 2 = 0 THEN q ELSE q + 1

\* A price in units, as the quoted float.
PriceOf(units) == Rat(units, UNITS_PER_PRICE)

(***************************************************************************)
(* get_daily_atr.  rates is what copy_rates_from_pos returned:             *)
(* [ok |-> FALSE] for None, else [ok |-> TRUE, bars |-> <<[high, low]>>].  *)
(* The result is [ok |-> FALSE] for None, else the mean range in units.    *)
(***************************************************************************)
RECURSIVE SumSeq(_)
SumSeq(s) == IF s = <<>> THEN 0 ELSE Head(s) + SumSeq(Tail(s))

NoneRates == [ok |-> FALSE, bars |-> <<>>]

NoneAtr == [ok |-> FALSE, atr |-> 0]

\* get_daily_atr without the count of line 37: any bars give a value.
get_daily_atr_uncounted(rates) ==
    IF ~rates.ok \/ Len(rates.bars) = 0
    THEN NoneAtr
    ELSE LET highs == [i \in 1..Len(rates.bars) |-> rates.bars[i].high]
             lows  == [i \in 1..Len(rates.bars) |-> rates.bars[i].low]
             diffs == [i \in 1..Len(highs) |-> highs[i] - lows[i]]
         IN  [ok |-> TRUE, atr |-> SumSeq(diffs) \div Len(highs)]

\* get_daily_atr looking at the most recent bar alone.
get_daily_atr_last_bar(rates) ==
    IF ~rates.ok \/ Len(rates.bars) < ATR_PERIOD
    THEN NoneAtr
    ELSE [ok |-> TRUE, atr |-> rates.bars[1].high - rates.bars[1].low]

get_daily_atr(rates) ==
    IF ~rates.ok \/ Len(rates.bars) < ATR_PERIOD
    THEN NoneAtr
    ELSE LET highs == [i \in 1..Len(rates.bars) |-> rates.bars[i].high]
             lows  == [i \in 1..Len(rates.bars) |-> rates.bars[i].low]
             diffs == [i \in 1..Len(highs) |-> highs[i] - lows[i]]
         IN  [ok |-> TRUE, atr |-> SumSeq(diffs) \div Len(highs)]

\* Lines 244-245 and 157-158: spread points in price units, added to the
\* estimate.
trading_distance(a, info) == a + info.spread * info.point

(***************************************************************************)
(* maximum_capacity_lot_size.  account, tick and info are what              *)
(* account_info, symbol_info_tick and symbol_info returned (ok = FALSE for  *)
(* None).  The result is [raised, lots]: raised when the Python code        *)
(* raises (an attribute of None, None in arithmetic, a division by zero).   *)
(***************************************************************************)
NoneAccount == [ok |-> FALSE, equity |-> <<0, 1>>, leverage |-> <<0, 1>>]

NoneTick == [ok |-> FALSE, ask |-> 0, bid |-> 0]

NoneInfo ==
    [ok |-> FALSE, point |-> 0, spread |-> 0,
     volume_min |-> <<0, 1>>, volume_max |-> <<0, 1>>, volume_step |-> <<0, 1>>]

Raised == [raised |-> TRUE, lots |-> <<0, 1>>]

Returned(lots) == [raised |-> FALSE, lots |-> lots]

\* Lines 78-81: the two clamps, in the order of the code.
ClampLots(x, lo, hi) ==
    LET a == IF RLess(hi, x) THEN hi ELSE x
    IN  IF RLess(a, lo) THEN lo ELSE a

\* Line 83: round(x / step) * step.
RoundToStep(x, step) == RMul(RInt(PyRound(RDiv(x, step))), step)

maximum_capacity_lot_size(account, tick, rates, info) ==
    IF ~account.ok THEN Returned(<<0, 1>>)
    ELSE IF ~tick.ok THEN Raised
    ELSE
    LET account_leverage == account.leverage
        current_price == PriceOf(tick.ask)
        cost_per_lot_current == RMul(RInt(CONTRACT_SIZE), current_price)
        a == get_daily_atr(rates)
    IN  IF ~a.ok \/ ~info.ok THEN Raised
        ELSE IF RIsZero(current_price) \/ RIsZero(account_leverage) THEN Raised
        ELSE
        LET hedge_distance ==
                RDiv(RMul(PriceOf(a.atr), RInt(ATR_HEDGE_DISTANCE)), RInt(100))
            hedge_price == RSub(current_price, hedge_distance)
            cost_per_lot_hedge == RMul(RInt(CONTRACT_SIZE), hedge_price)
            point == PriceOf(info.point)
            pip_value == RDiv(RMul(point, RInt(CONTRACT_SIZE)), current_price)
            equity_loss_at_hedge == RMul(hedge_distance, pip_value)
            initial_equity == account.equity
            equity_at_hedge == RSub(initial_equity, equity_loss_at_hedge)
            margin_req_buy == RDiv(cost_per_lot_current, account_leverage)
            margin_req_hedge ==
                RDiv(RDiv(cost_per_lot_hedge, account_leverage), RInt(2))
            total_margin_req == RAdd(margin_req_buy, margin_req_hedge)
        IN  IF RIsZero(total_margin_req) \/ RIsZero(info.volume_step) THEN Raised
            ELSE
            LET max_combined_lots == RDiv(equity_at_hedge, total_margin_req)
                max_lots_each_position == RDiv(max_combined_lots, RInt(2))
                imax_lots_each_position ==
                    RMul(max_lots_each_position,
                         Rat(PERCENTAGE_MAXIMUM_CAPACITY, 100))
                clamped == ClampLots(imax_lots_each_position,
                                     info.volume_min, info.volume_max)
            IN  Returned(RoundToStep(clamped, info.volume_step))

(***************************************************************************)
(* The venue's answers.  The symbol trades on a 0.0001 point with a        *)
(* quoted spread of zero points; the account has equity 1000 at leverage   *)
(* 100.  Each call may also fail (None).                                   *)
(***************************************************************************)
SymbolInfo ==
    [ok |-> TRUE, point |-> TICK, spread |-> 0,
     volume_min |-> <<1, 100>>, volume_max |-> <<100, 1>>,
     volume_step |-> <<1, 100>>]

Account == [ok |-> TRUE, equity |-> <<1000, 1>>, leverage |-> <<100, 1>>]

\* n daily bars, each with a range of r increments.
Bars(n, r) ==
    [ok |-> TRUE, bars |-> [i \in 1..n |-> [high |-> (1 + r) * TICK, low |-> TICK]]]

\* copy_rates_from_pos while a daily bar ranges over r increments: None, too
\* few bars, or 14 bars.
RatesChoices(r) ==
    {NoneRates, Bars(ATR_PERIOD - 1, r), Bars(ATR_PERIOD, r)}

InfoChoices == {NoneInfo, SymbolInfo}

AccountChoices == {NoneAccount, Account}

\* symbol_info for validate_symbol: None, in the market watch, or not.
LookupChoices == {"none", "visible", "hidden"}

VARIABLES
    \* the venue
    ask,            \* the current ask, in units
    positions,      \* open positions, in the order positions_get reports them
    orders,         \* pending orders, in the order orders_get reports them
    nextTicket,     \* the next ticket the venue assigns
    moves,          \* the venue's steps while the orders are placed
    daily_range,    \* the range of a daily bar, in increments
    \* the program
    pc,             \* where the run is
    outcome,        \* how hedging_logic ended
    valid,          \* validate_symbol's result
    rates_len,      \* the bars copy_rates_from_pos gave hedging_logic
    atr,            \* hedging_logic's atr
    distance,       \* hedging_logic's distance
    buy_order,      \* retcode of the initial market order
    sell_stop_price,
    sell_stop_order,
    buy_stop_price,
    buy_stop_order,
    coe_positions,  \* check_orders_exist: whether positions was non-empty
    m_positions,    \* monitor_pending_orders' positions
    m_orders,       \* monitor_pending_orders' orders still to walk
    tf_distance,    \* trend_following_buy_strategy's distance
    latest_position,
    new_buy_stop_price,
    current_price,
    \* what the venue was sent
    lastReq,        \* the request the last step sent (NoReq: it sent none)
    requested,      \* whether any request was sent
    lastSl,         \* the last stop sent: the position's ticket and the price
    cancels,        \* per order ticket, the cancel requests sent
    \* the sizer on its own
    sz_in,          \* what the venue answers a call of the sizer
    sz_out,         \* what the call returned
    lot_sizes       \* what the sizer can return at each quote, worked out once

venue == <<ask, positions, orders, nextTicket, moves, daily_range>>

hl_locals ==
    <<valid, rates_len, atr, distance, buy_order, sell_stop_price,
      sell_stop_order, buy_stop_price, buy_stop_order>>

mon_locals == <<coe_positions, m_positions, m_orders>>

tf_locals == <<tf_distance, latest_position, new_buy_stop_price, current_price>>

kept == <<requested, lastSl, cancels>>

sent == <<lastReq, kept>>

run == <<venue, pc, outcome, hl_locals, mon_locals, tf_locals, sent, lot_sizes>>

sizer == <<sz_in, sz_out>>

\* What no step changes but a change of the daily ranges.
aside == <<sizer, lot_sizes, daily_range>>

vars == <<run, sizer>>

Tickets == 1..MaxTicket

Spread == SymbolInfo.spread * SymbolInfo.point

Bid(a) == a - Spread

Tick(a) == [ok |-> TRUE, ask |-> a, bid |-> Bid(a)]

\* What the sizer can return at a quote of a while a daily bar ranges over r
\* increments, over the venue's answers.
LotChoices(a, r) ==
    {maximum_capacity_lot_size(account, Tick(a), rates, info) :
        account \in AccountChoices, rates \in RatesChoices(r),
        info \in InfoChoices}

\* The same for every quote and range of the model, and the look-up of one.
LotTable ==
    {[ask |-> k * TICK, range |-> r, lots |-> LotChoices(k * TICK, r)] :
        k \in 1..MaxAsk, r \in 1..MaxRange}

LotsAt(a) ==
    (CHOOSE e \in lot_sizes : e.ask = a /\ e.range = daily_range).lots

NoReq ==
    [action |-> "NONE", type |-> "-", price |-> 0, volume |-> <<0, 1>>,
     target |-> 0, origin |-> "-", ask |-> 0, done |-> FALSE]

NoSl == [ticket |-> 0, sl |-> 0]

NoPosition == [ticket |-> 0, type |-> "-", price_open |-> 0, origin |-> "-"]

(***************************************************************************)
(* The venue's side of order_send.                                         *)
(***************************************************************************)
\* A market order can be filled: it has a volume and a ticket is left.
CanFill(volume) == ~RIsZero(volume) /\ RLess(<<0, 1>>, volume) /\ nextTicket <= MaxTicket

\* A stop order can be accepted: also its price is on the far side of the quote.
CanAccept(type, price, volume) ==
    /\ CanFill(volume)
    /\ price > 0
    /\ IF type = "BUY_STOP" THEN price > ask ELSE price < Bid(ask)

Position(ticket, type, price, origin) ==
    [ticket |-> ticket, type |-> type, price_open |-> price, origin |-> origin]

Order(ticket, type, price, origin) ==
    [ticket |-> ticket, type |-> type, price |-> price, origin |-> origin]

\* The stop orders a quote of a triggers.
Triggered(o, a) ==
    IF o.type = "BUY_STOP" THEN a >= o.price ELSE Bid(a) <= o.price

Fill(o, a) ==
    IF o.type = "BUY_STOP"
    THEN Position(o.ticket, "BUY", a, o.origin)
    ELSE Position(o.ticket, "SELL", Bid(a), o.origin)

RECURSIVE Filled(_, _)
Filled(os, a) ==
    IF os = <<>> THEN <<>>
    ELSE IF Triggered(Head(os), a)
         THEN <<Fill(Head(os), a)>> \o Filled(Tail(os), a)
         ELSE Filled(Tail(os), a)

Remove(s, i) == SubSeq(s, 1, i - 1) \o SubSeq(s, i + 1, Len(s))

SetupPcs ==
    {"validate", "atr", "market", "sell_quote", "sell_place", "buy_quote",
     "buy_place"}

\* The venue's steps are those of the run's lifetime.  Between the two tests
\* of one pass of the inner loop (lines 176 and 185) the run reads nothing of
\* the venue, so a venue step there is the same as one right after it.
VenueActs == pc \notin {"done", "tf_trail"}

\* The price moves one increment; every stop it reaches becomes a position.
PriceMove ==
    /\ VenueActs
    /\ UNCHANGED aside
    /\ pc \in SetupPcs => moves < MaxSetupMoves
    /\ \E d \in {-TICK, TICK} :
          /\ ask + d >= TICK
          /\ ask + d <= MaxAsk * TICK
          /\ ask' = ask + d
          /\ positions' = positions \o Filled(orders, ask + d)
          /\ orders' = SelectSeq(orders, LAMBDA o : ~Triggered(o, ask + d))
    /\ moves' = IF pc \in SetupPcs THEN moves + 1 ELSE moves
    /\ lastReq' = NoReq
    /\ UNCHANGED <<nextTicket, pc, outcome, hl_locals, mon_locals, tf_locals, kept>>

\* A position is closed at the venue: stopped out, or closed by hand.
PositionClosed ==
    /\ VenueActs
    /\ UNCHANGED aside
    /\ pc \in SetupPcs => moves < MaxSetupMoves
    /\ moves' = IF pc \in SetupPcs THEN moves + 1 ELSE moves
    /\ \E i \in 1..Len(positions) : positions' = Remove(positions, i)
    /\ lastReq' = NoReq
    /\ UNCHANGED <<ask, orders, nextTicket, pc, outcome, hl_locals,
                   mon_locals, tf_locals, kept>>

\* The daily bars copy_rates_from_pos reports change their range: a step of
\* the venue of VolatileSpec.
RangeChange ==
    /\ VenueActs
    /\ UNCHANGED <<sizer, lot_sizes>>
    /\ pc \in SetupPcs => moves < MaxSetupMoves
    /\ moves' = IF pc \in SetupPcs THEN moves + 1 ELSE moves
    /\ \E r \in {daily_range - 1, daily_range + 1} :
          /\ r >= 1
          /\ r <= MaxRange
          /\ daily_range' = r
    /\ lastReq' = NoReq
    /\ UNCHANGED <<ask, positions, orders, nextTicket, pc, outcome, hl_locals,
                   mon_locals, tf_locals, kept>>

\* A request as sent, with the venue's answer and the ask at that moment.
Request(action, type, price, volume, target, origin, done) ==
    [action |-> action, type |-> type, price |-> price, volume |-> volume,
     target |-> target, origin |-> origin,
     ask |-> IF action \in {"DEAL", "PENDING"} THEN ask ELSE 0, done |-> done]

(***************************************************************************)
(* The state after construction: nothing placed, nothing sent.             *)
(***************************************************************************)
RunInit ==
    /\ ask = StartAsk * TICK
    /\ positions = <<>>
    /\ orders = <<>>
    /\ nextTicket = 1
    /\ moves = 0
    /\ daily_range = 1
    /\ pc = "validate"
    /\ outcome = "running"
    /\ valid = "unset"
    /\ rates_len = -1
    /\ atr = [state |-> "unset", atr |-> 0]
    /\ distance = 0
    /\ buy_order = "unset"
    /\ sell_stop_price = 0
    /\ sell_stop_order = "unset"
    /\ buy_stop_price = 0
    /\ buy_stop_order = "unset"
    /\ coe_positions = FALSE
    /\ m_positions = <<>>
    /\ m_orders = <<>>
    /\ tf_distance = 0
    /\ latest_position = NoPosition
    /\ new_buy_stop_price = 0
    /\ current_price = 0
    /\ lastReq = NoReq
    /\ requested = FALSE
    /\ lastSl = NoSl
    /\ cancels = [t \in Tickets |-> 0]
    /\ lot_sizes = LotTable

NotCalled ==
    [called |-> FALSE, raised |-> FALSE, lots |-> <<0, 1>>, calls |-> 0,
     first |-> Returned(<<0, 1>>)]

Init ==
    /\ RunInit
    /\ sz_in = [account |-> Account, tick |-> Tick(StartAsk * TICK),
                rates |-> Bars(ATR_PERIOD, 1), info |-> SymbolInfo]
    /\ sz_out = NotCalled

(***************************************************************************)
(* validate_symbol                                                         *)
(***************************************************************************)
validate_symbol(lookup, selected) ==
    IF lookup = "none" THEN FALSE
    ELSE IF lookup = "hidden" /\ ~selected THEN FALSE
    ELSE TRUE

(***************************************************************************)
(* place_market_order and place_pending_order, once the sizer returned     *)
(* lots: the request is sent whatever the size, and the venue fills or     *)
(* accepts it (accept, if it can) or rejects it.  The OrderSendResult is   *)
(* kept by its retcode.                                                    *)
(***************************************************************************)
Retcode(req) == IF req.done THEN "DONE" ELSE "REJECTED"

place_market_order(lots, accept) ==
    LET done == accept /\ CanFill(lots)
    IN  /\ lastReq' = Request("DEAL", "BUY", ask, lots, 0, "market", done)
        /\ requested' = TRUE
        /\ positions' =
              IF done
              THEN Append(positions, Position(nextTicket, "BUY", ask, "market"))
              ELSE positions
        /\ nextTicket' = IF done THEN nextTicket + 1 ELSE nextTicket
        /\ UNCHANGED <<ask, orders>>

place_pending_order(type, price, origin, lots, accept) ==
    LET done == accept /\ CanAccept(type, price, lots)
    IN  /\ lastReq' = Request("PENDING", type, price, lots, 0, origin, done)
        /\ requested' = TRUE
        /\ orders' =
              IF done
              THEN Append(orders, Order(nextTicket, type, price, origin))
              ELSE orders
        /\ nextTicket' = IF done THEN nextTicket + 1 ELSE nextTicket
        /\ UNCHANGED <<ask, positions>>

\* Python's truth of an OrderSendResult: a non-empty struct, whatever its retcode.
Truthy(result) == result \in {"DONE", "REJECTED"}

\* An uncaught exception ends the run.
Raise ==
    /\ pc' = "done"
    /\ outcome' = "raised"
    /\ lastReq' = NoReq

(***************************************************************************)
(* hedging_logic                                                           *)
(***************************************************************************)
\* Lines 233-236.
hedging_logic_validate ==
    /\ pc = "validate"
    /\ UNCHANGED aside
    /\ \E lookup \in LookupChoices, selected \in BOOLEAN :
          IF validate_symbol(lookup, selected)
          THEN /\ valid' = "True"
               /\ pc' = "atr"
               /\ UNCHANGED outcome
          ELSE /\ valid' = "False"
               /\ pc' = "done"
               /\ outcome' = "invalid_symbol"
    /\ lastReq' = NoReq
    /\ UNCHANGED <<venue, rates_len, atr, distance, buy_order, sell_stop_price,
                   sell_stop_order, buy_stop_price, buy_stop_order, mon_locals,
                   tf_locals, kept>>

\* Lines 238-245.
hedging_logic_atr ==
    /\ pc = "atr"
    /\ UNCHANGED aside
    /\ \E rates \in RatesChoices(daily_range), info \in InfoChoices :
          LET a == get_daily_atr(rates)
          IN  /\ rates_len' = IF rates.ok THEN Len(rates.bars) ELSE 0
              /\ atr' = [state |-> IF a.ok THEN "value" ELSE "none", atr |-> a.atr]
              /\ IF ~a.ok
                 THEN /\ pc' = "done"
                      /\ outcome' = "atr_failed"
                      /\ UNCHANGED distance
                 ELSE IF ~info.ok
                 THEN Raise /\ UNCHANGED distance
                 ELSE /\ distance' = trading_distance(a.atr, info)
                      /\ pc' = "market"
                      /\ UNCHANGED outcome
    /\ lastReq' = NoReq
    /\ UNCHANGED <<venue, valid, buy_order, sell_stop_price, sell_stop_order,
                   buy_stop_price, buy_stop_order, mon_locals, tf_locals, kept>>

\* Lines 248-252.
hedging_logic_market ==
    /\ pc = "market"
    /\ UNCHANGED aside
    /\ \E lot \in LotsAt(ask), accept \in BOOLEAN :
              IF lot.raised
              THEN Raise /\ UNCHANGED <<ask, positions, orders, nextTicket, buy_order,
                                      requested>>
              ELSE /\ place_market_order(lot.lots, accept)
                   /\ buy_order' = Retcode(lastReq')
                   /\ IF ~Truthy(buy_order')
                      THEN pc' = "done" /\ outcome' = "order_failed"
                      ELSE pc' = "sell_quote" /\ UNCHANGED outcome
    /\ UNCHANGED <<moves, valid, rates_len, atr, distance, sell_stop_price,
                   sell_stop_order, buy_stop_price, buy_stop_order, mon_locals,
                   tf_locals, lastSl, cancels>>

\* Line 255.
hedging_logic_sell_quote ==
    /\ pc = "sell_quote"
    /\ UNCHANGED aside
    /\ sell_stop_price' = Bid(ask) - distance
    /\ pc' = "sell_place"
    /\ lastReq' = NoReq
    /\ UNCHANGED <<venue, outcome, valid, rates_len, atr, distance, buy_order,
                   sell_stop_order, buy_stop_price, buy_stop_order, mon_locals,
                   tf_locals, kept>>

\* Lines 256-260.
hedging_logic_sell_stop ==
    /\ pc = "sell_place"
    /\ UNCHANGED aside
    /\ \E lot \in LotsAt(ask), accept \in BOOLEAN :
              IF lot.raised
              THEN Raise /\ UNCHANGED <<ask, positions, orders, nextTicket, sell_stop_order,
                                      requested>>
              ELSE /\ place_pending_order("SELL_STOP", sell_stop_price,
                                          "sell_leg", lot.lots, accept)
                   /\ sell_stop_order' = Retcode(lastReq')
                   /\ IF ~Truthy(sell_stop_order')
                      THEN pc' = "done" /\ outcome' = "order_failed"
                      ELSE pc' = "buy_quote" /\ UNCHANGED outcome
    /\ UNCHANGED <<moves, valid, rates_len, atr, distance, buy_order,
                   sell_stop_price, buy_stop_price, buy_stop_order, mon_locals,
                   tf_locals, lastSl, cancels>>

\* Line 263.
hedging_logic_buy_quote ==
    /\ pc = "buy_quote"
    /\ UNCHANGED aside
    /\ buy_stop_price' = ask + distance
    /\ pc' = "buy_place"
    /\ lastReq' = NoReq
    /\ UNCHANGED <<venue, outcome, valid, rates_len, atr, distance, buy_order,
                   sell_stop_price, sell_stop_order, buy_stop_order, mon_locals,
                   tf_locals, kept>>

\* Lines 264-268.
hedging_logic_buy_stop ==
    /\ pc = "buy_place"
    /\ UNCHANGED aside
    /\ \E lot \in LotsAt(ask), accept \in BOOLEAN :
              IF lot.raised
              THEN Raise /\ UNCHANGED <<ask, positions, orders, nextTicket, buy_stop_order,
                                      requested>>
              ELSE /\ place_pending_order("BUY_STOP", buy_stop_price,
                                          "buy_leg", lot.lots, accept)
                   /\ buy_stop_order' = Retcode(lastReq')
                   /\ IF ~Truthy(buy_stop_order')
                      THEN pc' = "done" /\ outcome' = "order_failed"
                      ELSE pc' = "mon_enter" /\ UNCHANGED outcome
    /\ UNCHANGED <<moves, valid, rates_len, atr, distance, buy_order, sell_stop_price,
                   sell_stop_order, buy_stop_price, mon_locals, tf_locals,
                   lastSl, cancels>>

(***************************************************************************)
(* check_orders_exist, called by monitor_pending_orders (line 211) and by  *)
(* trend_following_buy_strategy (line 199): two reads of the venue.        *)
(***************************************************************************)
\* Line 138.
check_orders_exist_positions ==
    /\ pc \in {"mon_coe_pos", "tf_coe_pos"}
    /\ UNCHANGED aside
    /\ coe_positions' = (positions # <<>>)
    /\ pc' = IF pc = "mon_coe_pos" THEN "mon_coe_ord" ELSE "tf_coe_ord"
    /\ lastReq' = NoReq
    /\ UNCHANGED <<venue, outcome, hl_locals, m_positions, m_orders, tf_locals,
                   kept>>

\* Lines 139-143, and the caller's test of the result: False breaks the
\* caller's loop, and either break ends the run (lines 205, 224, 227, 272).
\* The function's positions is gone when it returns.
check_orders_exist ==
    /\ pc \in {"mon_coe_ord", "tf_coe_ord"}
    /\ UNCHANGED aside
    /\ IF ~coe_positions /\ orders = <<>>
       THEN pc' = "done" /\ outcome' = "completed"
       ELSE /\ pc' = IF pc = "mon_coe_ord" THEN "mon_poll" ELSE "tf_poll"
            /\ UNCHANGED outcome
    /\ coe_positions' = FALSE
    /\ lastReq' = NoReq
    /\ UNCHANGED <<venue, hl_locals, m_positions, m_orders, tf_locals, kept>>

(***************************************************************************)
(* monitor_pending_orders                                                  *)
(***************************************************************************)
\* Lines 271 and 209: the call.  hedging_logic reads none of its locals
\* again, and the model drops them.
monitor_pending_orders_enter ==
    /\ pc = "mon_enter"
    /\ UNCHANGED aside
    /\ pc' = "mon_coe_pos"
    /\ valid' = "unset"
    /\ rates_len' = -1
    /\ atr' = [state |-> "unset", atr |-> 0]
    /\ distance' = 0
    /\ buy_order' = "unset"
    /\ sell_stop_price' = 0
    /\ sell_stop_order' = "unset"
    /\ buy_stop_price' = 0
    /\ buy_stop_order' = "unset"
    /\ moves' = 0
    /\ lastReq' = NoReq
    /\ UNCHANGED <<ask, positions, orders, nextTicket, outcome, mon_locals,
                   tf_locals, kept>>

\* Lines 214-219 and 226: the poll's reads and its test.  A poll that finds
\* nothing sleeps; its positions and orders are not read again.
monitor_pending_orders_poll ==
    /\ pc = "mon_poll"
    /\ UNCHANGED aside
    /\ IF Len(positions) > 1 /\ \E i \in 1..Len(positions) : positions[i].type = "BUY"
       THEN /\ m_positions' = positions
            /\ m_orders' = orders
            /\ pc' = "mon_cancel"
       ELSE /\ m_positions' = <<>>
            /\ m_orders' = <<>>
            /\ pc' = "mon_coe_pos"
    /\ lastReq' = NoReq
    /\ UNCHANGED <<venue, outcome, hl_locals, coe_positions, tf_locals, kept>>

\* The walk of lines 220-222 without the test of line 221: every order.
NextOrderOfAnyType(os) == os

\* The orders still to walk, from the next SELL_STOP on.
RECURSIVE NextSellStop(_)
NextSellStop(os) ==
    IF os = <<>> THEN <<>>
    ELSE IF Head(os).type = "SELL_STOP" THEN os
    ELSE NextSellStop(Tail(os))

\* Lines 220-223: one cancel request per SELL_STOP of the poll's orders, then
\* the call of trend_following_buy_strategy.
monitor_pending_orders_cancel ==
    /\ pc = "mon_cancel"
    /\ UNCHANGED aside
    /\ LET rest == NextSellStop(m_orders)
       IN  IF rest = <<>>
           THEN /\ pc' = "tf_atr"
                /\ m_orders' = <<>>
                /\ lastReq' = NoReq
                /\ UNCHANGED <<venue, kept>>
           ELSE LET o == Head(rest)
                    live == \E i \in 1..Len(orders) : orders[i].ticket = o.ticket
                IN  \E accept \in BOOLEAN :
                       LET done == accept /\ live
                       IN  /\ lastReq' = Request("REMOVE", o.type, 0, <<0, 1>>,
                                                 o.ticket, o.origin, done)
                           /\ requested' = TRUE
                           /\ cancels' = [cancels EXCEPT ![o.ticket] = @ + 1]
                           /\ orders' =
                                 IF done
                                 THEN SelectSeq(orders,
                                                LAMBDA q : q.ticket # o.ticket)
                                 ELSE orders
                           /\ m_orders' = Tail(rest)
                           /\ pc' = "mon_cancel"
                           /\ UNCHANGED <<ask, positions, nextTicket, moves, lastSl>>
    /\ UNCHANGED <<outcome, hl_locals, coe_positions, m_positions, tf_locals>>

(***************************************************************************)
(* trend_following_buy_strategy (bias = 0)                                 *)
(***************************************************************************)
\* Lines 147-158.  A return ends monitor_pending_orders and the run.
trend_following_buy_strategy_start ==
    /\ pc = "tf_atr"
    /\ UNCHANGED aside
    /\ \E rates \in RatesChoices(daily_range), info \in InfoChoices :
          LET a == get_daily_atr(rates)
          IN  IF ~a.ok
              THEN pc' = "done" /\ outcome' = "completed" /\ UNCHANGED tf_distance
              ELSE IF ~info.ok
              THEN Raise /\ UNCHANGED tf_distance
              ELSE /\ tf_distance' = trading_distance(a.atr, info)
                   /\ pc' = "tf_poll"
                   /\ UNCHANGED outcome
    /\ m_positions' = <<>>
    /\ lastReq' = NoReq
    /\ UNCHANGED <<venue, hl_locals, coe_positions, m_orders, latest_position,
                   new_buy_stop_price, current_price, kept>>

\* Lines 161-169.
trend_following_buy_strategy_poll ==
    /\ pc = "tf_poll"
    /\ UNCHANGED aside
    /\ IF Len(positions) = 0
       THEN /\ pc' = "done" /\ outcome' = "completed"
            /\ UNCHANGED <<latest_position, new_buy_stop_price>>
       ELSE IF Len(positions) > 1
       THEN /\ latest_position' = positions[Len(positions)]
            /\ new_buy_stop_price' = ask + tf_distance
            /\ pc' = "tf_place"
            /\ UNCHANGED outcome
       ELSE /\ pc' = "tf_coe_pos"
            /\ UNCHANGED <<outcome, latest_position, new_buy_stop_price>>
    /\ lastReq' = NoReq
    /\ UNCHANGED <<venue, hl_locals, mon_locals, tf_distance, current_price, kept>>

\* Line 170.
trend_following_buy_strategy_place ==
    /\ pc = "tf_place"
    /\ UNCHANGED aside
    /\ \E lot \in LotsAt(ask), accept \in BOOLEAN :
              IF lot.raised
              THEN Raise /\ UNCHANGED <<ask, positions, orders, nextTicket, requested>>
              ELSE /\ place_pending_order("BUY_STOP", new_buy_stop_price,
                                          "successor", lot.lots, accept)
                   /\ pc' = "tf_inner"
                   /\ UNCHANGED outcome
    /\ UNCHANGED <<moves, hl_locals, mon_locals, tf_locals, lastSl, cancels>>

\* An SLTP request for the stop of latest_position; the venue keeps no stop
\* the run reads.
AdjustStop(sl, accept) ==
    LET t == latest_position.ticket
        open == \E i \in 1..Len(positions) : positions[i].ticket = t
    IN  /\ lastReq' = Request("SLTP", "-", sl, <<0, 1>>, t,
                              latest_position.origin, accept /\ open)
        /\ requested' = TRUE
        /\ lastSl' = [ticket |-> t, sl |-> sl]

\* Lines 173-183.
trend_following_buy_strategy_breakeven ==
    /\ pc = "tf_inner"
    /\ UNCHANGED aside
    /\ current_price' = ask
    /\ IF ask >= latest_position.price_open + TICK
       THEN \E accept \in BOOLEAN : AdjustStop(latest_position.price_open, accept)
       ELSE lastReq' = NoReq /\ UNCHANGED <<requested, lastSl>>
    /\ pc' = "tf_trail"
    /\ UNCHANGED <<venue, outcome, hl_locals, mon_locals, tf_distance,
                   latest_position, new_buy_stop_price, cancels>>

\* trailing_stop_price after lines 174-177.
trailing_stop_price ==
    IF current_price >= latest_position.price_open + TICK
    THEN latest_position.price_open
    ELSE latest_position.price_open + TICK

\* Lines 185-197.  new_buy_stop, an OrderSendResult, is true.  The locals
\* of the inner loop are assigned again before they are read again, and the
\* model drops them.
trend_following_buy_strategy_trail ==
    /\ pc = "tf_trail"
    /\ UNCHANGED aside
    /\ IF current_price >= trailing_stop_price + TICK
       THEN \E accept \in BOOLEAN : AdjustStop(trailing_stop_price + TICK, accept)
       ELSE lastReq' = NoReq /\ UNCHANGED <<requested, lastSl>>
    /\ IF current_price >= new_buy_stop_price
       THEN /\ pc' = "tf_coe_pos"
            /\ latest_position' = NoPosition
            /\ new_buy_stop_price' = 0
       ELSE /\ pc' = "tf_inner"
            /\ UNCHANGED <<latest_position, new_buy_stop_price>>
    /\ current_price' = 0
    /\ UNCHANGED <<venue, outcome, hl_locals, mon_locals, tf_distance, cancels>>

Next ==
    \/ PriceMove
    \/ PositionClosed
    \/ hedging_logic_validate
    \/ hedging_logic_atr
    \/ hedging_logic_market
    \/ hedging_logic_sell_quote
    \/ hedging_logic_sell_stop
    \/ hedging_logic_buy_quote
    \/ hedging_logic_buy_stop
    \/ monitor_pending_orders_enter
    \/ check_orders_exist_positions
    \/ check_orders_exist
    \/ monitor_pending_orders_poll
    \/ monitor_pending_orders_cancel
    \/ trend_following_buy_strategy_start
    \/ trend_following_buy_strategy_poll
    \/ trend_following_buy_strategy_place
    \/ trend_following_buy_strategy_breakeven
    \/ trend_following_buy_strategy_trail

Spec == Init /\ [][Next]_vars

\* The steps of the program: the script is one thread whose loops sleep one
\* second and go on, so it keeps taking its next step until it returns.
\* The venue owes nothing.
ProgramStep ==
    \/ hedging_logic_validate
    \/ hedging_logic_atr
    \/ hedging_logic_market
    \/ hedging_logic_sell_quote
    \/ hedging_logic_sell_stop
    \/ hedging_logic_buy_quote
    \/ hedging_logic_buy_stop
    \/ monitor_pending_orders_enter
    \/ check_orders_exist_positions
    \/ check_orders_exist
    \/ monitor_pending_orders_poll
    \/ monitor_pending_orders_cancel
    \/ trend_following_buy_strategy_start
    \/ trend_following_buy_strategy_poll
    \/ trend_following_buy_strategy_place
    \/ trend_following_buy_strategy_breakeven
    \/ trend_following_buy_strategy_trail

FairSpec == Init /\ [][Next]_vars /\ WF_vars(ProgramStep)

\* The run at a venue where the daily ranges change as well.
VolatileNext ==
    \/ RangeChange
    \/ PriceMove
    \/ PositionClosed
    \/ hedging_logic_validate
    \/ hedging_logic_atr
    \/ hedging_logic_market
    \/ hedging_logic_sell_quote
    \/ hedging_logic_sell_stop
    \/ hedging_logic_buy_quote
    \/ hedging_logic_buy_stop
    \/ monitor_pending_orders_enter
    \/ check_orders_exist_positions
    \/ check_orders_exist
    \/ monitor_pending_orders_poll
    \/ monitor_pending_orders_cancel
    \/ trend_following_buy_strategy_start
    \/ trend_following_buy_strategy_poll
    \/ trend_following_buy_strategy_place
    \/ trend_following_buy_strategy_breakeven
    \/ trend_following_buy_strategy_trail

VolatileSpec == Init /\ [][VolatileNext]_vars

(***************************************************************************)
(* The sizer on its own: maximum_capacity_lot_size is called with what the *)
(* venue answers, and the venue's answers change between calls.            *)
(***************************************************************************)
\* Lot sizes in hundredths of a lot.
Lots(n) == Rat(n, 100)

SizerAccounts ==
    {NoneAccount} \cup
    {[ok |-> TRUE, equity |-> RInt(e), leverage |-> RInt(l)] :
        e \in {1, 1000, 10000}, l \in {1, 100}}

SizerTicks == {NoneTick, Tick(10000 * TICK), Tick(11000 * TICK)}

SizerRates == {NoneRates, Bars(ATR_PERIOD - 1, 100), Bars(ATR_PERIOD, 100)}

SizerInfos ==
    {NoneInfo} \cup
    {[ok |-> TRUE, point |-> TICK, spread |-> 0, volume_min |-> Lots(lo),
      volume_max |-> Lots(hi), volume_step |-> Lots(st)] :
        lo \in {1, 5, 10}, hi \in {10, 25, 50}, st \in {1, 10}}

SizerInputs ==
    [account : SizerAccounts, tick : SizerTicks, rates : SizerRates,
     info : SizerInfos]

SizerInit ==
    /\ RunInit
    /\ sz_in \in SizerInputs
    /\ sz_out = NotCalled

\* A call that keeps the margin of the size it returns: the equity left to
\* the next call is halved.
sizer_call_reserving ==
    /\ sz_out.calls < MaxCalls
    /\ LET r == maximum_capacity_lot_size(sz_in.account, sz_in.tick,
                                          sz_in.rates, sz_in.info)
       IN  sz_out' = [called |-> TRUE, raised |-> r.raised, lots |-> r.lots,
                      calls |-> sz_out.calls + 1,
                      first |-> IF sz_out.calls = 0 THEN r ELSE sz_out.first]
    /\ sz_in' = [sz_in EXCEPT !.account.equity = RDiv(@, <<2, 1>>)]
    /\ UNCHANGED run

\* Lines 44-86: one call; first is what the first call with these answers
\* returned.
sizer_call ==
    /\ sz_out.calls < MaxCalls
    /\ LET r == maximum_capacity_lot_size(sz_in.account, sz_in.tick,
                                          sz_in.rates, sz_in.info)
       IN  sz_out' = [called |-> TRUE, raised |-> r.raised, lots |-> r.lots,
                      calls |-> sz_out.calls + 1,
                      first |-> IF sz_out.calls = 0 THEN r ELSE sz_out.first]
    /\ UNCHANGED <<sz_in, run>>

\* The account, the quote, the bars or the symbol change at the venue.
sizer_inputs_change ==
    /\ sz_out.called
    /\ sz_in' \in SizerInputs
    /\ sz_out' = NotCalled
    /\ UNCHANGED run

SizerNext == sizer_call \/ sizer_inputs_change

SizerSpec == SizerInit /\ [][SizerNext]_vars

(***************************************************************************)
(* The volatility estimate and the trading distance on their own: lines    *)
(* 238-245 of hedging_logic with what the venue answers.                   *)
(***************************************************************************)
\* 14 daily ranges in increments, most recent first: all 40; 30 and 50 in
\* turn; 34, 35, ... 47; one day of 560 among days of none.
RangePatterns ==
    { [i \in 1..ATR_PERIOD |-> 40],
      [i \in 1..ATR_PERIOD |-> IF i % 2 = 0 THEN 50 ELSE 30],
      [i \in 1..ATR_PERIOD |-> 33 + i],
      [i \in 1..ATR_PERIOD |-> IF i = 3 THEN 40 * ATR_PERIOD ELSE 0] }

\* The bars of the first n of the ranges, each above a low of 1.1000.
BarsOf(ranges, n) ==
    [ok |-> TRUE,
     bars |-> [i \in 1..n |-> [high |-> (11000 + ranges[i]) * TICK,
                               low |-> 11000 * TICK]]]

AtrRates ==
    {NoneRates} \cup
    {BarsOf(r, n) : r \in RangePatterns, n \in {0, 1, ATR_PERIOD - 1, ATR_PERIOD}}

AtrInfos ==
    {NoneInfo} \cup
    {[ok |-> TRUE, point |-> TICK, spread |-> sp, volume_min |-> Lots(1),
      volume_max |-> Lots(50), volume_step |-> Lots(1)] : sp \in {0, 1, 2, 3}}

AtrInputs == [rates : AtrRates, info : AtrInfos]

AtrInit ==
    /\ RunInit
    /\ sz_in \in AtrInputs
    /\ sz_out = NotCalled

\* Lines 238-245: get_daily_atr, then the distance.
atr_call ==
    /\ ~sz_out.called
    /\ LET a == get_daily_atr(sz_in.rates)
       IN  sz_out' =
              [called |-> TRUE, ok |-> a.ok, atr |-> a.atr,
               raised |-> a.ok /\ ~sz_in.info.ok,
               distance |-> IF a.ok /\ sz_in.info.ok
                            THEN trading_distance(a.atr, sz_in.info)
                            ELSE 0]
    /\ UNCHANGED <<sz_in, run>>

\* New bars or a new spread at the venue.
atr_inputs_change ==
    /\ sz_out.called
    /\ sz_in' \in AtrInputs
    /\ sz_out' = NotCalled
    /\ UNCHANGED run

AtrNext == atr_call \/ atr_inputs_change

AtrSpec == AtrInit /\ [][AtrNext]_vars

(***************************************************************************)
(* Properties of the run.                                                  *)
(***************************************************************************)
HasOrigin(s, origin) == \E i \in 1..Len(s) : s[i].origin = origin

BracketLegs == {"buy_leg", "sell_leg"}

\* C1: during and after monitoring, the bracket buy-stop and the bracket
\* sell-stop of the run are never both filled into open positions.
C1_NeverBothLegsFilled ==
    pc \notin SetupPcs =>
        ~(HasOrigin(positions, "buy_leg") /\ HasOrigin(positions, "sell_leg"))

\* C2: when the poll that saw more than one position hands over to
\* trend_following_buy_strategy, a cancel request has been sent for the
\* pending stop opposite to the leg it saw filled, whichever leg that is.
C2_OppositeLegCancelled ==
    pc = "tf_atr" =>
        \A j \in 1..Len(orders) :
            /\ (HasOrigin(m_positions, "buy_leg") /\ orders[j].origin = "sell_leg")
                  => cancels[orders[j].ticket] >= 1
            /\ (HasOrigin(m_positions, "sell_leg") /\ orders[j].origin = "buy_leg")
                  => cancels[orders[j].ticket] >= 1

\* C3: once the buy-stop triggered first and the sell-stop got its cancel
\* request, that request is the only one, and no later poll of
\* trend_following_buy_strategy is given a sell position.
C3_OnlyBuyPositionsAfterCancel ==
    \A t \in Tickets :
        /\ cancels[t] <= 1
        /\ (cancels[t] = 1 /\ pc = "tf_poll") =>
              \A i \in 1..Len(positions) : positions[i].type = "BUY"

\* C4: the stops sent for one long position never go down from one
\* stop-adjustment request to the next.
C4_StopNeverLowered ==
    [][(/\ lastSl.ticket # 0
        /\ lastSl'.ticket = lastSl.ticket
        /\ latest_position.ticket = lastSl.ticket
        /\ latest_position.type = "BUY")
       => lastSl'.sl >= lastSl.sl]_vars

\* The inputs the sizer calls valid, with the bars and the symbol answered.
IsMultiple(x, step) == RDiv(x, step)[2] = 1

ValidSizerInputs ==
    /\ sz_in.account.ok /\ sz_in.tick.ok /\ sz_in.info.ok
    /\ get_daily_atr(sz_in.rates).ok
    /\ RLess(<<0, 1>>, sz_in.account.equity)
    /\ RLess(<<0, 1>>, sz_in.account.leverage)
    /\ sz_in.tick.ask > 0
    /\ RLess(<<0, 1>>, sz_in.info.volume_step)
    /\ ~RLess(sz_in.info.volume_max, sz_in.info.volume_min)

\* C5: for valid inputs maximum_capacity_lot_size returns a size within
\* [volume_min, volume_max] that is a multiple of volume_step.
C5_SizeWithinLimitsOnStep ==
    (sz_out.called /\ ValidSizerInputs) =>
        /\ ~sz_out.raised
        /\ ~RLess(sz_out.lots, sz_in.info.volume_min)
        /\ ~RLess(sz_in.info.volume_max, sz_out.lots)
        /\ IsMultiple(sz_out.lots, sz_in.info.volume_step)

\* C6: a bracket stop is submitted at exactly the trading distance above the
\* ask (buy-stop) or below the bid (sell-stop) of the moment of submission.
C6_BracketPriceAtDistance ==
    (lastReq.action = "PENDING" /\ lastReq.origin \in BracketLegs) =>
        IF lastReq.type = "BUY_STOP"
        THEN lastReq.price = lastReq.ask + distance
        ELSE lastReq.price = Bid(lastReq.ask) - distance

FailedOutcomes == {"invalid_symbol", "atr_failed", "order_failed"}

\* C7: when the symbol lookup fails or fewer than 14 daily bars come back,
\* hedging_logic has ended in a failed outcome and no request of any kind
\* has been sent to the venue.
C7_ValidationFailureSendsNothing ==
    (valid = "False" \/ rates_len \in 0..(ATR_PERIOD - 1)) =>
        /\ pc = "done"
        /\ outcome \in FailedOutcomes
        /\ ~requested
        /\ positions = <<>> /\ orders = <<>>

\* C7 happens: 13 bars came back and the run has ended.
C7_Witness ==
    /\ valid = "True"
    /\ rates_len = ATR_PERIOD - 1
    /\ outcome = "atr_failed"

\* C8: after the venue rejected the market BUY the run is in the failed
\* outcome and submits no bracket stop.
C8_RejectedMarketOrderFails ==
    buy_order = "REJECTED" =>
        /\ pc = "done"
        /\ outcome \in FailedOutcomes
        /\ lastReq.action # "PENDING"

\* C9: after the venue rejected a bracket stop the run is in the failed
\* outcome with no bracket stop left pending, and monitoring is not entered.
C9_NoDanglingLeg ==
    (sell_stop_order = "REJECTED" \/ buy_stop_order = "REJECTED") =>
        /\ pc = "done"
        /\ outcome \in FailedOutcomes
        /\ \A j \in 1..Len(orders) : orders[j].origin \notin BracketLegs

\* C10: a size of zero is not traded: no market or stop order request
\* carries a volume of zero.
C10_ZeroSizeSendsNothing ==
    lastReq.action \in {"DEAL", "PENDING"} => ~RIsZero(lastReq.volume)


\* C12: when hedging_logic has returned from monitoring, no stop order of
\* the run is pending at the venue and no position is open.
C12_NoOrphansOnReturn ==
    (pc = "done" /\ outcome = "completed") =>
        (orders = <<>> /\ positions = <<>>)

\* C15: the poll of trend_following_buy_strategy that decides to submit a
\* successor buy-stop saw exactly one open position and no successor
\* pending, and at most one successor is ever pending.
C15_SuccessorOnlyForOnePosition ==
    [][(pc = "tf_poll" /\ pc' = "tf_place") =>
          /\ Len(positions) = 1
          /\ ~HasOrigin(orders, "successor")]_vars

\* The place of the first position of an origin in a list (0: none).
IndexOf(s, origin) ==
    IF HasOrigin(s, origin)
    THEN CHOOSE i \in 1..Len(s) :
            /\ s[i].origin = origin
            /\ \A j \in 1..(i - 1) : s[j].origin # origin
    ELSE 0

\* C18: when the poll saw both bracket legs filled, the side it lets win
\* is the one listed first: it goes on to the buy-side continuation only
\* if the buy leg's position is listed before the sell leg's.
C18_FirstListedLegWins ==
    (/\ pc = "tf_atr"
     /\ HasOrigin(m_positions, "buy_leg")
     /\ HasOrigin(m_positions, "sell_leg"))
    => IndexOf(m_positions, "buy_leg") < IndexOf(m_positions, "sell_leg")

\* C20: every cancel request is sent by the cancel loop of the monitoring
\* poll that found more than one position, targets an order of type
\* SELL_STOP and never a buy-stop, and no order is sent two of them.
C20_CancelsOnlySellStops ==
    /\ lastReq.action = "REMOVE" =>
          /\ pc = "mon_cancel"
          /\ lastReq.type = "SELL_STOP"
          /\ lastReq.origin \notin {"buy_leg", "successor"}
    /\ \A t \in Tickets :
          /\ cancels[t] <= 1
          /\ cancels[t] = 1 =>
                \A j \in 1..Len(orders) :
                    orders[j].ticket = t => orders[j].type = "SELL_STOP"
    /\ (\E t \in Tickets : cancels[t] > 0) =>
          pc \notin SetupPcs \cup {"mon_enter", "mon_coe_pos", "mon_coe_ord", "mon_poll"}

\* C20 happens: a cancel was sent for the bracket sell-stop and the venue
\* removed the order.
C20_Witness ==
    /\ lastReq.action = "REMOVE"
    /\ lastReq.done
    /\ lastReq.origin = "sell_leg"


\* The sum of the ranges of the first n bars.
RECURSIVE RangeSum(_, _)
RangeSum(bars, n) ==
    IF n = 0 THEN 0 ELSE (bars[n].high - bars[n].low) + RangeSum(bars, n - 1)

\* C13: with 14 bars get_daily_atr is the mean of their 14 ranges; with
\* none or fewer it is the failure value and no distance is made; and the
\* distance is the multiplier times the estimate plus the spread.
C13_AtrIsMeanOfFourteen ==
    sz_out.called =>
        IF sz_in.rates.ok /\ Len(sz_in.rates.bars) = ATR_PERIOD
        THEN /\ sz_out.ok
             /\ sz_out.atr * ATR_PERIOD = RangeSum(sz_in.rates.bars, ATR_PERIOD)
             /\ sz_in.info.ok =>
                   sz_out.distance =
                      ATR_MULTIPLIER * sz_out.atr + sz_in.info.spread * sz_in.info.point
        ELSE /\ ~sz_out.ok
             /\ sz_out.atr = 0
             /\ sz_out.distance = 0

\* C13 happens: ranges of 30 and 50 pips give 40, and a spread of 2 makes
\* the distance 42.
C13_Witness ==
    /\ sz_out.called
    /\ sz_in.rates.ok
    /\ Len(sz_in.rates.bars) = ATR_PERIOD
    /\ sz_in.rates.bars[1].high - sz_in.rates.bars[1].low = 30 * TICK
    /\ sz_out.atr = 40 * TICK
    /\ sz_in.info.ok
    /\ sz_in.info.spread = 2
    /\ sz_out.distance = 42 * TICK


TfPcs ==
    {"tf_atr", "tf_poll", "tf_place", "tf_inner", "tf_trail", "tf_coe_pos",
     "tf_coe_ord"}

MonPcs == {"mon_enter", "mon_coe_pos", "mon_coe_ord", "mon_poll", "mon_cancel"}

\* C11: trend_following_buy_strategy does not go on for ever with the
\* venue reporting no open position: it returns.
C11_ManagerReturnsWhenFlat ==
    ~<>[](pc \in TfPcs /\ positions = <<>>)

IsOpen(ticket) == \E i \in 1..Len(positions) : positions[i].ticket = ticket

RejectedSuccessor ==
    /\ pc = "tf_inner"
    /\ lastReq.action = "PENDING"
    /\ lastReq.origin = "successor"
    /\ ~lastReq.done

\* C16: after the venue rejected the successor buy-stop the manager goes
\* on and submits a successor again, unless the position it manages is
\* closed or no more than one position is left.
C16_RejectedSuccessorRetried ==
    [](RejectedSuccessor =>
          <>(\/ pc = "tf_place"
             \/ pc = "done"
             \/ ~IsOpen(latest_position.ticket)
             \/ Len(positions) <= 1))

\* C17: a poll of monitor_pending_orders that is given no positions and no
\* orders ends the loop in that poll and sends nothing, and
\* monitor_pending_orders, the manager it calls included, does not go on
\* for ever with no position and no order at the venue.
C17_MonitoringResolvesWhenFlat ==
    /\ [][(pc = "mon_coe_pos" /\ pc' # pc) =>
             (lastReq' = NoReq /\ UNCHANGED <<venue, kept>>)]_vars
    /\ [][(pc = "mon_coe_ord" /\ pc' # pc /\ ~coe_positions /\ orders = <<>>) =>
             /\ pc' = "done"
             /\ outcome' = "completed"
             /\ lastReq' = NoReq
             /\ UNCHANGED <<venue, kept>>]_vars
    /\ ~<>[](pc \in MonPcs \cup TfPcs /\ positions = <<>> /\ orders = <<>>)

\* C19: the successor's trigger price is the ask of the cycle plus the
\* distance of the volatility the venue reports in that cycle.
C19_DistanceOfTheCycle ==
    [][(pc = "tf_poll" /\ pc' = "tf_place") =>
          new_buy_stop_price' =
              ask + trading_distance(
                        get_daily_atr(Bars(ATR_PERIOD, daily_range)).atr,
                        SymbolInfo)]_vars

=============================================================================
